---- MODULE Spec2Model ----
(***************************************************************************)
(* Model of tools/check_apk_alignment.py: the script that, for two fixed   *)
(* native libraries of an APK, looks the entry up in the zip central       *)
(* directory, reads the 30-byte local file header with a raw open/seek/    *)
(* read, derives the offset of the entry's data and reports it modulo the  *)
(* 16 KiB page size.                                                       *)
(*                                                                         *)
(* One run of the script is one behaviour.  The inputs (command line,      *)
(* file system, archive content) are chosen in Init and never change; the  *)
(* actions are the script's statements in program order.                   *)
(***************************************************************************)
EXTENDS Integers, Sequences, FiniteSets

\* ------------------------------------------------------------------ constants
\* f.read(30): size of the fixed part of a zip local file header (line 22).
HeaderSize == 30
\* data_offset % 16384 (line 33).
PageSize == 16384
\* exit(2) (line 7).
ExitMissingArchive == 2
\* exit status of a run that falls off the end of the script.
ExitOk == 0
\* exit status the interpreter gives a run ended by an unhandled exception.
ExitUnhandled == 1
\* struct.unpack_from('<H',hdr,26) and struct.unpack_from('<H',hdr,28).
FilenameLenAt == 26
ExtraLenAt == 28

\* ------------------------------------------------------------------ bounds
\* High bytes of the two little-endian length fields are drawn from 0..MaxHigh.
MaxHigh == 1

\* ------------------------------------------------------------------ inputs
\* line 3: the default archive path.
DefaultApk == "app/build/outputs/apk/debug/app-debug.apk"
CustomApk == "custom/app-release.apk"
ProgName == "tools/check_apk_alignment.py"
Paths == {DefaultApk, CustomApk}

\* line 10: the fixed, ordered entry list.
librariesSwapped == <<"lib/arm64-v8a/liboboe_synth.so", "lib/arm64-v8a/liboboe.so">>
libraries == <<"lib/arm64-v8a/liboboe.so", "lib/arm64-v8a/liboboe_synth.so">>
Names == {libraries[k] : k \in 1..Len(libraries)}

NoEntry == [absent |-> TRUE]
NoZip == [closed |-> TRUE]
NoFile == [open |-> FALSE, pos |-> 0]
\* Value of a script variable no statement has assigned yet.
Unbound == 0 - 1

\* Header offsets of the archives of the model: the start of the file, the
\* offset that puts the data of an entry with a 24-byte name and no extra
\* field on the first page boundary, and an offset shortly before the third
\* page boundary.
HeaderOffsets == {0, PageSize - HeaderSize - 24, 3 * PageSize - 100}

\* (compress_type, file_size, compress_size) of a central-directory record:
\* a stored entry and a deflated one.
CompressKinds ==
    { <<0, 4096, 4096>>, <<8, 4096, 1500>> }

\* zipfile.ZipInfo as getinfo returns it: every field comes from the central
\* directory.  extra is the central directory's extra field (empty here, as
\* zipalign pads the local header's extra field only).
ZipInfo(n, h, c) ==
    [filename |-> n, header_offset |-> h, compress_type |-> c[1],
     file_size |-> c[2], compress_size |-> c[3], extra |-> <<>>]

InfosOf(n) == {ZipInfo(n, h, c) : h \in HeaderOffsets, c \in CompressKinds}

\* The 30 bytes of a local file header whose filename length is fl + 256*fh
\* and whose extra length is el + 256*eh: signature PK\3\4, version 20, the
\* rest zero.
LocalHeaderBytes(fl, fh, el, eh) ==
    <<80, 75, 3, 4, 20, 0, 0, 0, 0, 0,
      0, 0, 0, 0, 0, 0, 0, 0, 0, 0,
      0, 0, 0, 0, 0, 0, fl, fh, el, eh>>

\* What the file holds from a header offset on, cut at 30 bytes: a whole
\* header, or fewer bytes when the file ends first (offset at end of file,
\* or 29 bytes before it).
FullWindows ==
    {LocalHeaderBytes(fl, fh, el, eh) :
        fl \in {24}, fh \in 0..MaxHigh, el \in {0, 4}, eh \in 0..MaxHigh}
ShortWindows ==
    {SubSeq(LocalHeaderBytes(24, 0, 0, 0), 1, k) : k \in {0, HeaderSize - 1}}
Windows == FullWindows \cup ShortWindows

\* The archives of the model: a central directory that holds or lacks each
\* name of interest, and the bytes at each header offset the directory
\* refers to.
Archives ==
    {a \in [cd : [Names -> {NoEntry} \cup UNION {InfosOf(n) : n \in Names}],
            data : [HeaderOffsets -> Windows \cup {<<>>}]] :
        /\ \A n \in Names : a.cd[n] # NoEntry => a.cd[n].filename = n
        /\ \A o \in HeaderOffsets :
              IF \E n \in Names : a.cd[n] # NoEntry /\ a.cd[n].header_offset = o
              THEN a.data[o] \in Windows
              ELSE a.data[o] = <<>>}

NoArchive == [cd |-> [n \in Names |-> NoEntry], data |-> [o \in HeaderOffsets |-> <<>>]]

VARIABLES
    argv,        \* sys.argv
    fs,          \* file system: path -> "missing" | "notzip" | "zip"
    archive,     \* content of the zip file of the file system
    pc,          \* position in the script
    status,      \* process exit status, Unbound while running
    out,         \* lines printed to standard output
    apk, z, i, info, f, hdr, filename_len, extra_len, data_offset,
    iolog        \* file operations on the archive path, in order

vars == <<argv, fs, archive, pc, status, out, apk, z, i, info, f, hdr,
          filename_len, extra_len, data_offset, iolog>>

inputs == <<argv, fs, archive>>

Line(k, n, v) == [k |-> k, n |-> n, v |-> v]
Io(op, idx, arg) == [op |-> op, i |-> idx, arg |-> arg]

name == libraries[i]

Init ==
    /\ argv \in {<<ProgName>>, <<ProgName, CustomApk>>}
    /\ \E kind \in {"missing", "notzip", "zip"} :
          /\ fs = [p \in Paths |->
                     IF p = (IF Len(argv) > 1 THEN CustomApk ELSE DefaultApk)
                     THEN kind ELSE "missing"]
          /\ IF kind = "zip" THEN archive \in Archives ELSE archive = NoArchive
    /\ pc = "resolve"
    /\ status = Unbound
    /\ out = <<>>
    /\ apk = ""
    /\ z = NoZip
    /\ i = 0
    /\ info = NoEntry
    /\ f = NoFile
    /\ hdr = <<>>
    /\ filename_len = Unbound
    /\ extra_len = Unbound
    /\ data_offset = Unbound
    /\ iolog = <<>>

\* ------------------------------------------------------------------ helpers
\* os.path.exists(apk) (line 4).
Exists(p) == p \in DOMAIN fs /\ fs[p] # "missing"

\* f.read(n) at position pos of the archive file (line 22): the bytes from
\* pos on, at most n of them, fewer when the file ends first.
ReadAt(pos, n) ==
    IF pos \in DOMAIN archive.data
    THEN SubSeq(archive.data[pos], 1,
                IF n < Len(archive.data[pos]) THEN n ELSE Len(archive.data[pos]))
    ELSE <<>>

\* struct.unpack_from('<H', b, off)[0] (lines 26-27): the unsigned 16-bit
\* little-endian value at bytes off and off+1 (0-based) of b.
UnpackLEBigEndian(b, off) == 256 * b[off + 1] + b[off + 2]
UnpackLE(b, off) == b[off + 1] + 256 * b[off + 2]

\* struct.unpack_from raises struct.error when the buffer is too short.
UnpackFails(b, off) == Len(b) < off + 2

\* len(hdr) < 30 (line 23).
HdrTooShortOffByOne(h) == Len(h) < HeaderSize - 1
HdrTooShort(h) == Len(h) < HeaderSize

\* line 28.
DataOffsetFromCentralDirectory(inf, fl, el) ==
    inf.header_offset + HeaderSize
        + (IF inf.filename = libraries[1] THEN 24 ELSE 30) + Len(inf.extra)
DataOffsetOf(inf, fl, el) == inf.header_offset + HeaderSize + fl + el

\* data_offset % 16384 (line 33); Python's % with a positive modulus is the
\* floor remainder, as is TLA+'s.
PageRemainder4K(d) == d % 4096
PageRemainder(d) == d % PageSize

\* lines 29-36: the full report of one entry.
ReportLines(n, inf, d) ==
    << Line("name", n, 0),
       Line("compress_type_0_is_stored", "", inf.compress_type),
       Line("header_offset", "", inf.header_offset),
       Line("data_offset", "", d),
       Line("data_offset_mod_16384", "", PageRemainder(d)),
       Line("file_size", "", inf.file_size),
       Line("compress_size", "", inf.compress_size),
       Line("blank", "", 0) >>

\* ------------------------------------------------------------------ actions
\* line 3: apk = sys.argv[1] if len(sys.argv) > 1 else <default>
ResolveApkDefaultOnly ==
    /\ pc = "resolve"
    /\ apk' = DefaultApk
    /\ pc' = "exists"
    /\ UNCHANGED <<inputs, status, out, z, i, info, f, hdr, filename_len,
                   extra_len, data_offset, iolog>>
ResolveApk ==
    /\ pc = "resolve"
    /\ apk' = IF Len(argv) > 1 THEN argv[2] ELSE DefaultApk
    /\ pc' = "exists"
    /\ UNCHANGED <<inputs, status, out, z, i, info, f, hdr, filename_len,
                   extra_len, data_offset, iolog>>

\* lines 4-7: the archive does not exist: message, usage, exit(2).
MissingArchive ==
    /\ pc = "exists"
    /\ ~Exists(apk)
    /\ out' = out \o << Line("apk_not_found_at", apk, 0),
                        Line("blank", "", 0),
                        Line("usage", "", 0) >>
    /\ status' = ExitMissingArchive
    /\ pc' = "exited"
    /\ UNCHANGED <<inputs, apk, z, i, info, f, hdr, filename_len, extra_len,
                   data_offset, iolog>>

\* lines 9-12: zipfile.ZipFile(apk) opens the file, loads the central
\* directory and keeps its file object open (the script never closes z);
\* then the two heading lines.
OpenZip ==
    /\ pc = "exists"
    /\ Exists(apk)
    /\ fs[apk] = "zip"
    /\ z' = [fp |-> TRUE, NameToInfo |-> archive.cd]
    /\ iolog' = Append(iolog, Io("zip_open_r", 0, 0))
    /\ out' = out \o << Line("checking", apk, 0), Line("blank", "", 0) >>
    /\ pc' = "for"
    /\ UNCHANGED <<inputs, status, apk, i, info, f, hdr, filename_len,
                   extra_len, data_offset>>

\* line 9 on a file that is no zip archive: zipfile.BadZipFile, which
\* nothing handles; the interpreter prints a traceback to standard error
\* and exits with status 1.
BadZipFile ==
    /\ pc = "exists"
    /\ Exists(apk)
    /\ fs[apk] = "notzip"
    /\ iolog' = Append(iolog, Io("zip_open_r", 0, 0))
    /\ status' = ExitUnhandled
    /\ pc' = "exited"
    /\ UNCHANGED <<inputs, out, apk, z, i, info, f, hdr, filename_len,
                   extra_len, data_offset>>

\* line 13: the for statement takes the next name.
ForNext ==
    /\ pc = "for"
    /\ i < Len(libraries)
    /\ i' = i + 1
    /\ pc' = "getinfo"
    /\ UNCHANGED <<inputs, status, out, apk, z, info, f, hdr, filename_len,
                   extra_len, data_offset, iolog>>

\* line 13, list exhausted: the script ends, exit status 0.
ForDone ==
    /\ pc = "for"
    /\ i >= Len(libraries)
    /\ status' = ExitOk
    /\ pc' = "exited"
    /\ UNCHANGED <<inputs, out, apk, z, i, info, f, hdr, filename_len,
                   extra_len, data_offset, iolog>>

\* line 15: info = z.getinfo(name), the name is in the central directory.
GetInfo ==
    /\ pc = "getinfo"
    /\ z.NameToInfo[name] # NoEntry
    /\ info' = z.NameToInfo[name]
    /\ pc' = "open"
    /\ UNCHANGED <<inputs, status, out, apk, z, i, f, hdr, filename_len,
                   extra_len, data_offset, iolog>>

\* lines 15-18: getinfo raises KeyError: NOT FOUND, continue.
GetInfoKeyErrorFatal ==
    /\ pc = "getinfo"
    /\ z.NameToInfo[name] = NoEntry
    /\ out' = Append(out, Line("not_found", name, 0))
    /\ status' = ExitUnhandled
    /\ pc' = "exited"
    /\ UNCHANGED <<inputs, apk, z, i, info, f, hdr, filename_len,
                   extra_len, data_offset, iolog>>
GetInfoKeyError ==
    /\ pc = "getinfo"
    /\ z.NameToInfo[name] = NoEntry
    /\ out' = Append(out, Line("not_found", name, 0))
    /\ pc' = "for"
    /\ UNCHANGED <<inputs, status, apk, z, i, info, f, hdr, filename_len,
                   extra_len, data_offset, iolog>>

\* line 20: with open(apk,'rb') as f
OpenApk ==
    /\ pc = "open"
    /\ f' = [open |-> TRUE, pos |-> 0]
    /\ iolog' = Append(iolog, Io("open_rb", i, 0))
    /\ pc' = "seek"
    /\ UNCHANGED <<inputs, status, out, apk, z, i, info, hdr, filename_len,
                   extra_len, data_offset>>

\* line 21: f.seek(info.header_offset)
Seek ==
    /\ pc = "seek"
    /\ f' = [f EXCEPT !.pos = info.header_offset]
    /\ iolog' = Append(iolog, Io("seek", i, info.header_offset))
    /\ pc' = "read"
    /\ UNCHANGED <<inputs, status, out, apk, z, i, info, hdr, filename_len,
                   extra_len, data_offset>>

\* line 22: hdr = f.read(30)
ReadPage ==
    /\ pc = "read"
    /\ hdr' = ReadAt(f.pos, PageSize)
    /\ f' = [f EXCEPT !.pos = f.pos + Len(hdr')]
    /\ iolog' = Append(iolog, Io("read", i, PageSize))
    /\ pc' = "check"
    /\ UNCHANGED <<inputs, status, out, apk, z, i, info, filename_len,
                   extra_len, data_offset>>
Read ==
    /\ pc = "read"
    /\ hdr' = ReadAt(f.pos, HeaderSize)
    /\ f' = [f EXCEPT !.pos = f.pos + Len(hdr')]
    /\ iolog' = Append(iolog, Io("read", i, HeaderSize))
    /\ pc' = "check"
    /\ UNCHANGED <<inputs, status, out, apk, z, i, info, filename_len,
                   extra_len, data_offset>>

\* lines 23-25: short read: message, continue; leaving the with block
\* closes f.
TruncatedHeaderLeak ==
    /\ pc = "check"
    /\ HdrTooShort(hdr)
    /\ out' = Append(out, Line("failed_to_read_local_header", name, 0))
    /\ pc' = "for"
    /\ UNCHANGED <<inputs, status, apk, z, i, info, f, hdr, filename_len,
                   extra_len, data_offset, iolog>>
TruncatedHeader ==
    /\ pc = "check"
    /\ HdrTooShort(hdr)
    /\ out' = Append(out, Line("failed_to_read_local_header", name, 0))
    /\ f' = [f EXCEPT !.open = FALSE]
    /\ iolog' = Append(iolog, Io("close", i, 0))
    /\ pc' = "for"
    /\ UNCHANGED <<inputs, status, apk, z, i, info, hdr, filename_len,
                   extra_len, data_offset>>

\* lines 26-28 and the end of the with block: the two length fields, the
\* data offset; f is closed.  A buffer too short for unpack_from raises
\* struct.error, which nothing handles (f is closed by the with block, the
\* process exits with status 1).
ParseHeader ==
    /\ pc = "check"
    /\ ~HdrTooShort(hdr)
    /\ f' = [f EXCEPT !.open = FALSE]
    /\ iolog' = Append(iolog, Io("close", i, 0))
    /\ IF UnpackFails(hdr, FilenameLenAt)
       THEN /\ status' = ExitUnhandled
            /\ pc' = "exited"
            /\ UNCHANGED <<filename_len, extra_len, data_offset>>
       ELSE /\ filename_len' = UnpackLE(hdr, FilenameLenAt)
            /\ IF UnpackFails(hdr, ExtraLenAt)
               THEN /\ status' = ExitUnhandled
                    /\ pc' = "exited"
                    /\ UNCHANGED <<extra_len, data_offset>>
               ELSE /\ extra_len' = UnpackLE(hdr, ExtraLenAt)
                    /\ data_offset' = DataOffsetOf(info, filename_len', extra_len')
                    /\ status' = status
                    /\ pc' = "report"
    /\ UNCHANGED <<inputs, out, apk, z, i, info, hdr>>

\* lines 29-36: the report of the entry and the blank line after it.
Report ==
    /\ pc = "report"
    /\ out' = out \o ReportLines(name, info, data_offset)
    /\ pc' = "for"
    /\ UNCHANGED <<inputs, status, apk, z, i, info, f, hdr, filename_len,
                   extra_len, data_offset, iolog>>

Next ==
    \/ ResolveApk
    \/ MissingArchive
    \/ OpenZip
    \/ BadZipFile
    \/ ForNext
    \/ ForDone
    \/ GetInfo
    \/ GetInfoKeyError
    \/ OpenApk
    \/ Seek
    \/ Read
    \/ TruncatedHeader
    \/ ParseHeader
    \/ Report

Spec == Init /\ [][Next]_vars

\* ------------------------------------------------------------------ properties
\* The archive path the command line stands for.
ResolvedPath == IF Len(argv) > 1 THEN argv[2] ELSE DefaultApk
IsZip == fs[ResolvedPath] = "zip"

\* Facts of the archive file, read off the input and not off the script's
\* variables.
InCD(n) == archive.cd[n] # NoEntry
H(n) == archive.cd[n].header_offset
Avail(n) == Len(archive.data[H(n)])
Truncated(n) == InCD(n) /\ Avail(n) < 30
FullyReadable(n) == InCD(n) /\ Avail(n) >= 30
F(n) == archive.data[H(n)][27] + 256 * archive.data[H(n)][28]
E(n) == archive.data[H(n)][29] + 256 * archive.data[H(n)][30]
ExpectedOffset(n) == H(n) + 30 + F(n) + E(n)

\* The k-th name of the list has been dealt with.
Processed(k) ==
    \/ i > k
    \/ i = k /\ pc \in {"for", "exited"} /\ status # ExitUnhandled

\* The blocks of the output: a block starts at a line that carries an entry
\* name and runs to the line before the next such line, or to the end.
IsStart(p) == out[p].k \in {"not_found", "failed_to_read_local_header", "name"}
Starts == {p \in 1..Len(out) : IsStart(p)}
StartsOf(n) == {p \in Starts : out[p].n = n}
BlockEnd(p) ==
    LET later == {q \in Starts : q > p}
    IN  IF later = {} THEN Len(out)
        ELSE (CHOOSE q \in later : \A r \in later : q <= r) - 1
Block(p) == SubSeq(out, p, BlockEnd(p))
RECURSIVE StartNamesFrom(_)
StartNamesFrom(p) ==
    IF p > Len(out) THEN <<>>
    ELSE (IF IsStart(p) THEN <<out[p].n>> ELSE <<>>) \o StartNamesFrom(p + 1)
IsPrefix(s, t) == Len(s) <= Len(t) /\ s = SubSeq(t, 1, Len(s))
PerEntryIo(k) ==
    LET ofEntry(e) == e.i = k IN SelectSeq(iolog, ofEntry)
Count(op) ==
    LET isOp(e) == e.op = op IN Len(SelectSeq(iolog, isOp))

\* C1: for every entry that is in the central directory and whose 30 header
\* bytes were read, the reported data_offset is H + 30 + F + E, with F and E
\* the little-endian 16-bit values at bytes 26-27 and 28-29 of the local
\* header in the file; when E = 0, data_offset - H - 30 is F.
DataOffsetIsHeaderPlusLengths ==
    \A k \in 1..Len(libraries) :
        LET n == libraries[k] IN
        (IsZip /\ Processed(k) /\ FullyReadable(n)) =>
            \E p \in StartsOf(n) :
                /\ StartsOf(n) = {p}
                /\ p + 3 <= Len(out)
                /\ out[p + 2] = Line("header_offset", "", H(n))
                /\ out[p + 3] = Line("data_offset", "", H(n) + 30 + F(n) + E(n))
                /\ (E(n) = 0 => out[p + 3].v - out[p + 2].v - 30 = F(n))

DataOffsetReported ==
    /\ pc = "exited"
    /\ FullyReadable(libraries[1]) /\ FullyReadable(libraries[2])
    /\ F(libraries[1]) = 24 /\ E(libraries[1]) = 0
    /\ F(libraries[2]) = 280 /\ E(libraries[2]) = 260
    /\ \E p \in StartsOf(libraries[1]) : out[p + 3].v = PageSize
    /\ \E p \in StartsOf(libraries[2]) : out[p + 3].v = H(libraries[2]) + 570

\* C2: when the resolved archive path does not exist, the run prints a
\* message with that path and the usage text and exits with status 2,
\* before the archive is opened and before any entry is looked up or
\* reported; status 2 has no other cause.
MissingArchiveExits2 ==
    /\ fs[ResolvedPath] = "missing" =>
          /\ z = NoZip /\ iolog = <<>> /\ i = 0 /\ ~f.open
          /\ pc = "exited" =>
                /\ status = 2
                /\ out = << Line("apk_not_found_at", ResolvedPath, 0),
                            Line("blank", "", 0),
                            Line("usage", "", 0) >>
          /\ pc # "exited" => out = <<>> /\ status = Unbound
    /\ status = 2 => fs[ResolvedPath] = "missing" /\ pc = "exited"

MissingArchiveExited ==
    /\ pc = "exited" /\ status = 2
    /\ Len(argv) > 1
    /\ out[1].n = CustomApk

\* C3 (as claimed): whenever the archive path exists, the run processes every
\* name of the list and exits with status 0; only the missing archive stops
\* the run early or gives a non-zero status.
ExistingArchiveRunsToCompletion ==
    /\ (pc = "exited" /\ fs[ResolvedPath] # "missing") =>
          /\ status = 0
          /\ \A k \in 1..Len(libraries) : StartsOf(libraries[k]) # {}
    /\ (pc = "exited" /\ status # 0) => fs[ResolvedPath] = "missing"

\* C4: a name absent from the central directory gets the one line
\* '<name> NOT FOUND' and no offsets, and the run goes on to the next name;
\* with both names absent the output is the heading and the two NOT FOUND
\* lines and the exit status is 0.
AbsentEntryReportedNotFound ==
    /\ \A k \in 1..Len(libraries) :
          LET n == libraries[k] IN
          (IsZip /\ ~InCD(n)) =>
              /\ i = k => pc \in {"getinfo", "for", "exited"}
              /\ Processed(k) =>
                    \E p \in StartsOf(n) :
                        /\ StartsOf(n) = {p}
                        /\ Block(p) = << Line("not_found", n, 0) >>
              /\ pc = "exited" => status = 0 /\ i = Len(libraries)
    /\ (IsZip /\ pc = "exited" /\ \A n \in Names : ~InCD(n)) =>
          /\ status = 0
          /\ out = << Line("checking", ResolvedPath, 0), Line("blank", "", 0),
                      Line("not_found", "lib/arm64-v8a/liboboe.so", 0),
                      Line("not_found", "lib/arm64-v8a/liboboe_synth.so", 0) >>

BothAbsentExited ==
    IsZip /\ pc = "exited" /\ status = 0 /\ \A n \in Names : ~InCD(n)

\* C5: an entry with fewer than 30 bytes at its header offset gets the one
\* line '<name> failed to read local header', no length field is parsed and
\* no data_offset reported for it, nothing is raised, and the other entry
\* is processed, at either position of the list.
TruncatedHeaderReportedAndSkipped ==
    /\ IsZip => status # ExitUnhandled
    /\ \A k \in 1..Len(libraries) :
          LET n == libraries[k] IN
          (IsZip /\ Truncated(n)) =>
              /\ i = k => pc # "report"
              /\ Processed(k) =>
                    \E p \in StartsOf(n) :
                        /\ StartsOf(n) = {p}
                        /\ Block(p) = << Line("failed_to_read_local_header", n, 0) >>
              /\ pc = "exited" =>
                    /\ status = 0
                    /\ i = Len(libraries)
                    /\ \A m \in Names : Cardinality(StartsOf(m)) = 1

TruncatedThenFullReport ==
    /\ IsZip /\ pc = "exited"
    /\ Truncated(libraries[1]) /\ Avail(libraries[1]) = 29
    /\ FullyReadable(libraries[2])
    /\ \E p \in StartsOf(libraries[2]) : out[p].k = "name"

\* C6 (as claimed): a blank line is printed after every entry's block,
\* whether the block is the full report, NOT FOUND or the header-read
\* failure.
BlankLineAfterEveryBlock ==
    (pc = "exited" /\ status = 0) =>
        \A p \in Starts : out[BlockEnd(p)].k = "blank"

\* C7: every reported remainder r of a reported data_offset d satisfies
\* 0 <= r < 16384 and r = d - 16384 * (d div 16384), and d is at least
\* header_offset + 30, hence not negative.
RemainderIsFloorModulo ==
    \A p \in 1..Len(out) :
        /\ out[p].k = "data_offset" =>
              /\ p < Len(out) /\ out[p + 1].k = "data_offset_mod_16384"
              /\ out[p - 1].k = "header_offset"
              /\ out[p].v >= out[p - 1].v + 30
              /\ out[p].v >= 0
        /\ out[p].k = "data_offset_mod_16384" =>
              /\ out[p - 1].k = "data_offset"
              /\ 0 <= out[p].v /\ out[p].v < 16384
              /\ out[p].v = out[p - 1].v - 16384 * (out[p - 1].v \div 16384)

RemainderReported ==
    \E p, q \in 1..Len(out) :
        /\ out[p].k = "data_offset_mod_16384" /\ out[p].v = 0
        /\ out[p - 1].v = 16384
        /\ out[q].k = "data_offset_mod_16384" /\ out[q].v > 4096
        /\ out[q - 1].v > 2 * 16384

\* C8 (as claimed): no archive file handle is held open across entries or
\* at termination.
NoHandleHeldAcrossEntries ==
    pc \in {"for", "getinfo", "exited"} =>
        /\ ~f.open
        /\ z # NoZip => ~z.fp

\* C8 (amended): the per-entry handle of line 20 is open only between its
\* open and the end of the with block, on the successful and on the
\* truncated path, so it is closed whenever an entry starts and at
\* termination; the ZipFile of line 9 keeps its own handle open from its
\* construction to the end of the run, and its central-directory index is
\* never modified.
PerEntryHandleReleased ==
    /\ pc \in {"for", "getinfo", "open", "report", "exited"} =>
          /\ ~f.open
          /\ Count("open_rb") = Count("close")
    /\ f.open => pc \in {"seek", "read", "check"} /\ Count("open_rb") = Count("close") + 1
    /\ z # NoZip => z.fp /\ z.NameToInfo = archive.cd
    /\ (IsZip /\ pc \notin {"resolve", "exists"}) => z # NoZip

HandlesAtTermination ==
    /\ IsZip /\ pc = "exited" /\ status = 0
    /\ z.fp /\ ~f.open
    /\ Truncated(libraries[1]) /\ FullyReadable(libraries[2])
    /\ Count("open_rb") = 2 /\ Count("close") = 2

\* C9: the archive is only read; an entry found in the central directory
\* costs one open, one seek to its header_offset and one read of exactly 30
\* bytes (and the close that ends the with block), an absent entry costs no
\* file operation at all.
PerEntryFileAccess ==
    /\ \A e \in 1..Len(iolog) :
          iolog[e].op \in {"zip_open_r", "open_rb", "seek", "read", "close"}
    /\ \A k \in 1..Len(libraries) :
          LET n == libraries[k] IN
          IF IsZip /\ InCD(n)
          THEN LET access == << Io("open_rb", k, 0), Io("seek", k, H(n)),
                                Io("read", k, 30), Io("close", k, 0) >>
               IN  IF Processed(k) THEN PerEntryIo(k) = access
                   ELSE IsPrefix(PerEntryIo(k), access)
          ELSE PerEntryIo(k) = <<>>

FileAccessOfFoundAndAbsent ==
    /\ IsZip /\ pc = "exited"
    /\ InCD(libraries[1]) /\ ~InCD(libraries[2])
    /\ H(libraries[1]) > 0
    /\ Len(iolog) = 5

\* C10: the names are processed in the order liboboe.so, liboboe_synth.so,
\* each once, and each yields exactly one of NOT FOUND, header-read failure
\* or the full report of eight lines; the full report is produced exactly
\* when the entry is in the central directory and all 30 header bytes were
\* read.
ExpectedBlock(n) ==
    IF ~InCD(n) THEN << Line("not_found", n, 0) >>
    ELSE IF Avail(n) < 30 THEN << Line("failed_to_read_local_header", n, 0) >>
    ELSE << Line("name", n, 0),
            Line("compress_type_0_is_stored", "", archive.cd[n].compress_type),
            Line("header_offset", "", H(n)),
            Line("data_offset", "", ExpectedOffset(n)),
            Line("data_offset_mod_16384", "", ExpectedOffset(n) % 16384),
            Line("file_size", "", archive.cd[n].file_size),
            Line("compress_size", "", archive.cd[n].compress_size),
            Line("blank", "", 0) >>

OneReportPerNameInOrder ==
    IsZip =>
        /\ IsPrefix(StartNamesFrom(1),
                    <<"lib/arm64-v8a/liboboe.so", "lib/arm64-v8a/liboboe_synth.so">>)
        /\ \A p \in Starts :
              /\ (p + 1 \in Starts \/ p = Len(out)) <=> out[p].k # "name"
              /\ out[p].k = "name" <=> FullyReadable(out[p].n)
              /\ out[p].k = "not_found" <=> ~InCD(out[p].n)
              /\ out[p].k = "failed_to_read_local_header" <=> Truncated(out[p].n)
              /\ (pc \in {"for", "getinfo", "exited"}) => Block(p) = ExpectedBlock(out[p].n)
        /\ pc = "exited" =>
              /\ StartNamesFrom(1) =
                    <<"lib/arm64-v8a/liboboe.so", "lib/arm64-v8a/liboboe_synth.so">>
              /\ out = << Line("checking", ResolvedPath, 0), Line("blank", "", 0) >>
                         \o ExpectedBlock("lib/arm64-v8a/liboboe.so")
                         \o ExpectedBlock("lib/arm64-v8a/liboboe_synth.so")

FullReportThenNotFound ==
    /\ IsZip /\ pc = "exited"
    /\ FullyReadable(libraries[1]) /\ ~InCD(libraries[2])
    /\ Len(out) = 11

====
